---- MODULE Spec2Model ----
(***************************************************************************)
(* Model of the GRACE-gap scripts:                                         *)
(*   spline_interpolation.py        interpolate_missing_data_3d_spline     *)
(*   create_stack_array_of_monthly_data.py   stack_tiff_files_with_nans    *)
(*   separate_stack_arrays_for_all_months.py create_monthly_3d_arrays      *)
(*                                                                         *)
(* Floating point numbers are modelled as exact rationals <<num, den>>     *)
(* (den > 0, lowest terms) plus the value NaN == <<0, 0>>, which every     *)
(* arithmetic operation propagates.  Rounding is not modelled.             *)
(* A numpy array is a record [shape, data]: data maps every index tuple    *)
(* (0-based, as in numpy) to a value.                                      *)
(***************************************************************************)
EXTENDS Integers, Sequences, FiniteSets, TLC

VARIABLES
    \* ---- interpolate_missing_data_3d_spline, one entry per call (run)
    data_3d,            \* the argument volume of each call
    missing_index,      \* the argument index of each call
    interpolated_data,  \* the local copy that is returned
    x, y,               \* the loop variables
    pc,                 \* "call" | "loop" | "done" (returned) | "raised"
    error,              \* the exception that ended the call, or "none"
    printed,            \* the locations named by the "Not enough valid data" prints
    poly,               \* the coefficients the input volume was sampled from (SpecPoly)
    \* ---- the stacking scripts (one call)
    func,               \* "none" | "stack" | "monthly": the function called
    expected_files,     \* argument: the sequence of expected file names
    tiff_files,         \* argument: the file names listed in the directory
    missing_files,      \* argument: the file names declared missing
    start_year,         \* argument
    end_year,           \* argument
    array_shape,        \* the shape (rows, cols) of one raster
    disk,               \* the file system: [exists, corrupt] sets of names, [shape]
    stacked_array,      \* stack_tiff_files_with_nans: the array being filled
    monthly_arrays,     \* create_monthly_3d_arrays: month -> array
    index,              \* iterations of the loop completed
    spc,                \* "start" | "loop" | "done" | "raised"
    log                 \* the messages printed

ivars == <<data_3d, missing_index, interpolated_data, x, y, pc, error, printed, poly>>
svars == <<func, expected_files, tiff_files, missing_files, start_year, end_year,
           array_shape, disk, stacked_array, monthly_arrays, index, spc, log>>
vars == <<data_3d, missing_index, interpolated_data, x, y, pc, error, printed, poly,
          func, expected_files, tiff_files, missing_files, start_year, end_year,
          array_shape, disk, stacked_array, monthly_arrays, index, spc, log>>

---------------------------------------------------------------------------
(* Bounds of the model *)
MaxT == 6        \* longest time axis of a volume
MaxVal == 1      \* cell values are 0..MaxVal, or NaN
MaxCoef == 1     \* polynomial coefficients are -MaxCoef..MaxCoef

\* the spatial grids (x_dim, y_dim) of the volumes
GridShapes == {<<1, 1>>, <<1, 2>>, <<2, 1>>}

---------------------------------------------------------------------------
(* Numbers *)
NaN == <<0, 0>>
IsNaN(v) == v[2] = 0
Real(n) == <<n, 1>>
Abs(n) == IF n < 0 THEN -n ELSE n

RECURSIVE GCD(_, _)
GCD(a, b) == IF b = 0 THEN a ELSE GCD(b, a % b)

Norm(n, d) ==
    IF d = 0 THEN NaN
    ELSE LET g == GCD(Abs(n), Abs(d))
             s == IF d < 0 THEN -1 ELSE 1
         IN  <<s * (n \div g), s * (d \div g)>>

RAdd(a, b) ==
    IF IsNaN(a) \/ IsNaN(b) THEN NaN
    ELSE LET g == GCD(a[2], b[2])
         IN  Norm(a[1] * (b[2] \div g) + b[1] * (a[2] \div g), (a[2] \div g) * b[2])

RSub(a, b) == IF IsNaN(b) THEN NaN ELSE RAdd(a, <<-b[1], b[2]>>)

RMul(a, b) ==
    IF IsNaN(a) \/ IsNaN(b) THEN NaN
    ELSE LET g1 == GCD(Abs(a[1]), b[2])
             g2 == GCD(Abs(b[1]), a[2])
         IN  Norm((a[1] \div g1) * (b[1] \div g2), (a[2] \div g2) * (b[2] \div g1))

RDiv(a, b) ==
    IF IsNaN(a) \/ IsNaN(b) \/ b[1] = 0 THEN NaN
    ELSE RMul(a, Norm(b[2], b[1]))

Values == {Real(n) : n \in 0..MaxVal} \cup {NaN}

---------------------------------------------------------------------------
(* numpy arrays *)
IndexSet(shape) ==
    {<<i, j, k>> : i \in 0..(shape[1] - 1), j \in 0..(shape[2] - 1), k \in 0..(shape[3] - 1)}

\* np.full(shape, v)
NpFull(shape, v) == [shape |-> shape, data |-> [idx \in IndexSet(shape) |-> v]]

NoArray == [shape |-> <<>>, data |-> <<>>]

\* np.copy(a): a new array with the same shape and contents
NpCopy(a) == [shape |-> a.shape, data |-> [idx \in DOMAIN a.data |-> a.data[idx]]]

\* time_steps, x_dim, y_dim = data_3d.shape
ShapeUnpack(a) == [time_steps |-> a.shape[1], x_dim |-> a.shape[2], y_dim |-> a.shape[3]]

\* an integer index i along an axis of length n: numpy accepts -n..n-1 and
\* counts a negative index from the end
IndexInBounds(i, n) == -n <= i /\ i < n
WrapIndex(i, n) == IF i < 0 THEN i + n ELSE i

\* a[i, j, k] = v  (i, j, k within bounds)
\* (variant: the store lands one slice further along axis 0)
SetItemNext(a, i, j, k, v) ==
    [a EXCEPT !.data[<<(WrapIndex(i, a.shape[1]) + 1) % a.shape[1],
                       WrapIndex(j, a.shape[2]), WrapIndex(k, a.shape[3])>>] = v]
SetItem(a, i, j, k, v) ==
    [a EXCEPT !.data[<<WrapIndex(i, a.shape[1]), WrapIndex(j, a.shape[2]),
                       WrapIndex(k, a.shape[3])>>] = v]

\* data_3d[:, x, y]: the values along axis 0, as a 0-based function of time
\* (variant: the series is always read at location (0, 0))
TimeSeriesFirst(a, i, j) == [t \in 0..(a.shape[1] - 1) |-> a.data[<<t, 0, 0>>]]
TimeSeries(a, i, j) == [t \in 0..(a.shape[1] - 1) |-> a.data[<<t, i, j>>]]

---------------------------------------------------------------------------
(* scipy.interpolate.interp1d(x, y, kind='cubic', fill_value="extrapolate")  *)
(* The cubic kind is make_interp_spline(x, y, k=3) with its default          *)
(* not-a-knot boundary: the C2 piecewise cubic with breakpoints x[2:-2]      *)
(* through the samples; outside [x[0], x[-1]] the end pieces are extended.   *)
(* It is computed here in the truncated power basis                          *)
(*    1, u, u^2, u^3, (t - k_1)+^3, ..., (t - k_{n-4})+^3,  u = t - x[0],    *)
(* which spans the same spline space, by exact Gauss-Jordan elimination.     *)
(* The spline's value at t is linear in y: sum_i w_i(x, t) * y_i.            *)

Cube(n) == n * n * n
Pos(n) == IF n > 0 THEN n ELSE 0

\* the breakpoints x[2:-2] (1-based: 3 .. n-2)
InteriorKnots(xs) == SubSeq(xs, 3, Len(xs) - 2)

Basis(xs, j, t) ==
    LET u == t - xs[1] IN
    CASE j = 1 -> 1
      [] j = 2 -> u
      [] j = 3 -> u * u
      [] j = 4 -> Cube(u)
      [] OTHER -> Cube(Pos(t - InteriorKnots(xs)[j - 4]))

PivotRow(M, k, n) ==
    CHOOSE p \in k..n : M[p][k][1] # 0 /\ \A q \in k..(p - 1) : M[q][k][1] = 0

\* the sequence f[1..n], evaluated once
Row(f, n) == SubSeq(f, 1, n)

RECURSIVE Elim(_, _, _)
Elim(M, k, n) ==
    IF k > n THEN M
    ELSE LET p == PivotRow(M, k, n)
             S == [M EXCEPT ![k] = M[p], ![p] = M[k]]
             rowk == Row([c \in 1..(n + 1) |-> RDiv(S[k][c], S[k][k])], n + 1)
             E == Row([r \in 1..n |->
                     IF r = k THEN rowk
                     ELSE Row([c \in 1..(n + 1) |->
                                 RSub(S[r][c], RMul(S[r][k], rowk[c]))], n + 1)], n)
         IN  Elim(E, k + 1, n)

\* w with spline(t) = sum_i w[i] * y[i]:  A^T w = basis(t),  A[i][j] = Basis(xs, j, xs[i])
SplineWeights(xs, t) ==
    LET n == Len(xs)
        M == Row([j \in 1..n |-> Row([c \in 1..(n + 1) |->
                 IF c <= n THEN Real(Basis(xs, j, xs[c])) ELSE Real(Basis(xs, j, t))],
                 n + 1)], n)
        R == Elim(M, 1, n)
    IN  Row([i \in 1..n |-> R[i][n + 1]], n)

\* kind='linear' with extrapolation: the line through the two samples nearest to t
LinearWeights(xs, t) ==
    LET n == Len(xs)
        k == IF t <= xs[1] THEN 1
             ELSE IF t >= xs[n] THEN n - 1
             ELSE CHOOSE i \in 1..(n - 1) : xs[i] <= t /\ t <= xs[i + 1]
        d == xs[k + 1] - xs[k]
    IN  [i \in 1..n |-> IF i = k THEN Norm(xs[k + 1] - t, d)
                        ELSE IF i = k + 1 THEN Norm(t - xs[k], d)
                        ELSE Real(0)]

RECURSIVE Dot(_, _, _)
Dot(w, ys, n) == IF n = 0 THEN Real(0) ELSE RAdd(Dot(w, ys, n - 1), RMul(w[n], ys[n]))

\* valid_indices = [i for i in range(time_steps) if i != missing_index]
ValidIndices(time_steps, m) ==
    LET S == {i \in 0..(time_steps - 1) : i # m}
    IN  Row([k \in 1..Cardinality(S) |->
                CHOOSE i \in S : Cardinality({j \in S : j < i}) = k - 1], Cardinality(S))

\* the (x, t) pairs the calls of this model evaluate, with their weights
WeightTable ==
    LET Keys == {<<ValidIndices(T, m), m>> : <<T, m>> \in
                    {<<T, m>> \in (4..MaxT) \X ((-MaxT)..(MaxT - 1)) :
                        IndexInBounds(m, T) /\ Len(ValidIndices(T, m)) >= 4}}
    IN  [key \in Keys |-> SplineWeights(key[1], key[2])]

CubicWeights(xs, t) ==
    IF <<xs, t>> \in DOMAIN WeightTable THEN WeightTable[<<xs, t>>] ELSE SplineWeights(xs, t)

\* interp1d(xs, ys, kind='cubic', fill_value="extrapolate")(t), for Len(xs) >= 4.
\* A NaN among ys makes every value of the interpolant NaN.
\* (variant: kind='linear')
InterpolatorLinear(xs, ys, t) ==
    IF \E i \in 1..Len(ys) : IsNaN(ys[i]) THEN NaN
    ELSE Dot(LinearWeights(xs, t), ys, Len(xs))
Interpolator(xs, ys, t) ==
    IF \E i \in 1..Len(ys) : IsNaN(ys[i]) THEN NaN
    ELSE Dot(CubicWeights(xs, t), ys, Len(xs))

\* the smallest number of samples interp1d accepts for kind='cubic' (order + 1)
\* and the threshold the loop tests
CubicMinEntries == 4
EnoughValid == 2

---------------------------------------------------------------------------
(* interpolate_missing_data_3d_spline: one iteration of the loop at (i, j) *)
(* Result: [status, out, printed]; status is "ok" or the exception raised. *)
Iteration(data, out, m, i, j) ==
    LET time_steps == ShapeUnpack(data).time_steps
        time_series == TimeSeries(data, i, j)
        valid_indices == ValidIndices(time_steps, m)
        valid_time_points == valid_indices
        n == Len(valid_time_points)
        valid_data_points == [k \in 1..n |-> time_series[valid_time_points[k]]]
    IN  IF n = 0
        THEN \* np.array([]) is a float64 array: time_series[valid_time_points] raises
             [status |-> "IndexError", out |-> out, printed |-> <<>>]
        ELSE IF n >= EnoughValid
        THEN IF n < CubicMinEntries
             THEN \* interp1d: "x and y arrays must have at least 4 entries"
                  [status |-> "ValueError", out |-> out, printed |-> <<>>]
             ELSE IF ~IndexInBounds(m, time_steps)
             THEN \* interpolated_data[missing_index, x, y] = ... : index out of bounds
                  [status |-> "IndexError", out |-> out, printed |-> <<>>]
             ELSE [status |-> "ok",
                   out |-> SetItem(out, m, i, j,
                                   Interpolator(valid_time_points, valid_data_points, m)),
                   printed |-> <<>>]
        ELSE [status |-> "ok", out |-> out, printed |-> <<<<i, j>>>>]

x_dim(r) == ShapeUnpack(data_3d[r]).x_dim
y_dim(r) == ShapeUnpack(data_3d[r]).y_dim
time_steps(r) == ShapeUnpack(data_3d[r]).time_steps

Finished(r) == pc[r] \in {"done", "raised"}

\* lines 15-18: unpack the shape, copy the input (calls run one after another)
Call(r) ==
    /\ pc[r] = "call"
    /\ \A q \in DOMAIN pc : q < r => Finished(q)
    /\ interpolated_data' = [interpolated_data EXCEPT ![r] = NpCopy(data_3d[r])]
    /\ x' = [x EXCEPT ![r] = 0]
    /\ y' = [y EXCEPT ![r] = 0]
    /\ pc' = [pc EXCEPT ![r] = "loop"]
    /\ UNCHANGED <<data_3d, missing_index, error, printed, poly, svars>>

\* lines 21-39: the body of the double loop at (x, y), then the loop headers
LoopBody(r) ==
    /\ pc[r] = "loop"
    /\ x[r] < x_dim(r) /\ y[r] < y_dim(r)
    /\ LET res == Iteration(data_3d[r], interpolated_data[r], missing_index[r], x[r], y[r])
       IN  /\ interpolated_data' = [interpolated_data EXCEPT ![r] = res.out]
           /\ printed' = [printed EXCEPT ![r] = @ \o res.printed]
           /\ IF res.status = "ok"
              THEN /\ IF y[r] + 1 < y_dim(r)
                      THEN /\ y' = [y EXCEPT ![r] = @ + 1]
                           /\ x' = x
                      ELSE /\ y' = [y EXCEPT ![r] = 0]
                           /\ x' = [x EXCEPT ![r] = @ + 1]
                   /\ UNCHANGED <<pc, error>>
              ELSE /\ pc' = [pc EXCEPT ![r] = "raised"]
                   /\ error' = [error EXCEPT ![r] = res.status]
                   /\ UNCHANGED <<x, y>>
    /\ UNCHANGED <<data_3d, missing_index, poly, svars>>

\* line 41: return interpolated_data
Return(r) ==
    /\ pc[r] = "loop"
    /\ x[r] >= x_dim(r)
    /\ pc' = [pc EXCEPT ![r] = "done"]
    /\ UNCHANGED <<data_3d, missing_index, interpolated_data, x, y, error, printed, poly,
                   svars>>

CallStep == \E r \in DOMAIN pc : Call(r)
LoopStep == \E r \in DOMAIN pc : LoopBody(r)
ReturnStep == \E r \in DOMAIN pc : Return(r)

Next == CallStep \/ LoopStep \/ ReturnStep

---------------------------------------------------------------------------
(* Input volumes: a background value everywhere and at most one other cell *)
Volumes(T, g) ==
    LET shape == <<T, g[1], g[2]>>
    IN  {[shape |-> shape,
          data |-> [idx \in IndexSet(shape) |-> IF idx = c THEN v ELSE bg]] :
            <<bg, c, v>> \in Values \X IndexSet(shape) \X Values}

NoStack ==
    /\ func = "none"
    /\ expected_files = <<>>
    /\ tiff_files = {}
    /\ missing_files = {}
    /\ start_year = 0
    /\ end_year = 0
    /\ array_shape = <<>>
    /\ disk = [exists |-> {}, corrupt |-> {}, shape |-> <<>>]
    /\ stacked_array = NoArray
    /\ monthly_arrays = <<>>
    /\ index = 0
    /\ spc = "done"
    /\ log = <<>>

StartRuns(vols, m) ==
    /\ data_3d = vols
    /\ missing_index = [r \in DOMAIN vols |-> m]
    /\ interpolated_data = [r \in DOMAIN vols |-> NoArray]
    /\ x = [r \in DOMAIN vols |-> 0]
    /\ y = [r \in DOMAIN vols |-> 0]
    /\ pc = [r \in DOMAIN vols |-> "call"]
    /\ error = [r \in DOMAIN vols |-> "none"]
    /\ printed = [r \in DOMAIN vols |-> <<>>]

\* one call, any index from below -T to T
Init ==
    /\ \E T \in 1..MaxT, g \in GridShapes :
         \E v \in Volumes(T, g), m \in (-T - 1)..T : StartRuns(<<v>>, m)
    /\ poly = <<>>
    /\ NoStack

Spec == Init /\ [][Next]_vars

\* p(t) = a[1] + a[2] t + a[3] t^2 + a[4] t^3
PolyValue(a, t) == a[1] + a[2] * t + a[3] * t * t + a[4] * t * t * t

Coefficients == ((-MaxCoef)..MaxCoef) \X ((-MaxCoef)..MaxCoef) \X ((-MaxCoef)..MaxCoef)
                    \X ((-MaxCoef)..MaxCoef)

\* the volume sampled from p (plus i + j at location (i, j)), with g at the slice m
PolyVolume(T, grid, a, m, g) ==
    LET shape == <<T, grid[1], grid[2]>>
    IN  [shape |-> shape,
         data |-> [idx \in IndexSet(shape) |->
                     IF idx[1] = m THEN g
                     ELSE Real(PolyValue(a, idx[1]) + idx[2] + idx[3])]]

\* one call on a volume whose time series are cubic polynomials, with T >= 5
InitPoly ==
    /\ \E T \in 5..MaxT, grid \in {<<1, 1>>, <<1, 2>>}, a \in Coefficients, g \in Values :
         \E m \in 0..(T - 1) :
            /\ StartRuns(<<PolyVolume(T, grid, a, m, g)>>, m)
            /\ poly = a
    /\ NoStack

SpecPoly == InitPoly /\ [][Next]_vars

\* the volume a with the whole time series at (i, j) set to v
SetSeries(a, i, j, v) ==
    [a EXCEPT !.data = [idx \in DOMAIN a.data |->
                           IF idx[2] = i /\ idx[3] = j THEN v ELSE a.data[idx]]]

\* two calls, one after the other, with the same index, on volumes of the same
\* shape that differ at most in the time series of one location
InitPair ==
    /\ \E T \in 1..MaxT, g \in GridShapes :
         \E v \in Volumes(T, g), m \in 0..(T - 1), c \in Values :
            \E i \in 0..(g[1] - 1), j \in 0..(g[2] - 1) :
               StartRuns(<<v, SetSeries(v, i, j, c)>>, m)
    /\ poly = <<>>
    /\ NoStack

SpecPair == InitPair /\ [][Next]_vars

---------------------------------------------------------------------------
(* Claims about interpolate_missing_data_3d_spline *)

Runs == DOMAIN pc
ValidIndex(r) == 0 <= missing_index[r] /\ missing_index[r] < time_steps(r)
Locations(r) == {<<i, j>> : i \in 0..(x_dim(r) - 1), j \in 0..(y_dim(r) - 1)}
In(r, t, loc) == data_3d[r].data[<<t, loc[1], loc[2]>>]
Out(r, t, loc) == interpolated_data[r].data[<<t, loc[1], loc[2]>>]
\* the loop of call r is past location loc
Processed(r, loc) ==
    /\ pc[r] \in {"loop", "done", "raised"}
    /\ loc[1] < x[r] \/ (loc[1] = x[r] /\ loc[2] < y[r])
PrintedAt(r, loc) == {k \in 1..Len(printed[r]) : printed[r][k] = loc}

\* C1: with a valid missing_index, the returned array (and the copy while the loop
\* runs) has the shape of the input and equals it at every cell outside the slice
\* missing_index.
C1_FrameEffect ==
    \A r \in Runs :
        (pc[r] \in {"loop", "done"} /\ ValidIndex(r)) =>
            /\ interpolated_data[r].shape = data_3d[r].shape
            /\ DOMAIN interpolated_data[r].data = DOMAIN data_3d[r].data
            /\ \A idx \in DOMAIN data_3d[r].data :
                   idx[1] # missing_index[r] =>
                       interpolated_data[r].data[idx] = data_3d[r].data[idx]

\* C1 reached: a call on two locations returned, rewrote the slice
\* missing_index, and the input is not constant along time.
C1_Witness ==
    \E r \in Runs :
        /\ pc[r] = "done" /\ ValidIndex(r)
        /\ Cardinality(Locations(r)) = 2
        /\ \E loc \in Locations(r) : Out(r, missing_index[r], loc) # In(r, missing_index[r], loc)
        /\ \E loc \in Locations(r), t \in 0..(time_steps(r) - 1) :
               t # missing_index[r] /\ In(r, t, loc) # In(r, missing_index[r], loc)

\* C2: a call with missing_index < 0 or missing_index >= T never returns, and its
\* copy of the volume is never rewritten.
C2_InvalidIndexRejected ==
    \A r \in Runs :
        ~ValidIndex(r) =>
            /\ pc[r] # "done"
            /\ pc[r] \in {"loop", "raised"} =>
                   \A idx \in DOMAIN data_3d[r].data :
                       interpolated_data[r].data[idx] = data_3d[r].data[idx]

\* C3: with T = 1 or T = 2 and a valid missing_index the call does not raise; it
\* returns the input unchanged and prints exactly one diagnostic per location.
C3_TooFewSamplesSkipped ==
    \A r \in Runs :
        (ValidIndex(r) /\ time_steps(r) - 1 < 2) =>
            /\ pc[r] # "raised"
            /\ pc[r] = "done" =>
                   /\ \A loc \in Locations(r) :
                          /\ Out(r, missing_index[r], loc) = In(r, missing_index[r], loc)
                          /\ Cardinality(PrintedAt(r, loc)) = 1
                   /\ Len(printed[r]) = Cardinality(Locations(r))

\* C4: with exactly 2 valid samples (T = 3) the call does not raise, and with
\* missing_index = 1 every location past the loop holds, at slice 1, the
\* value at t = 1 of the line through (0, v0) and (2, v2).
C4_TwoSampleLine ==
    \A r \in Runs :
        (ValidIndex(r) /\ time_steps(r) = 3) =>
            /\ pc[r] # "raised"
            /\ missing_index[r] = 1 =>
                   \A loc \in Locations(r) :
                       Processed(r, loc) =>
                           Out(r, 1, loc) = RDiv(RAdd(In(r, 0, loc), In(r, 2, loc)), Real(2))

\* the samples at loc that are neither at missing_index nor NaN
UsableSamples(r, loc) ==
    {t \in 0..(time_steps(r) - 1) : t # missing_index[r] /\ ~IsNaN(In(r, t, loc))}

\* C5 (for volumes long enough for a cubic fit, T - 1 >= 4): the call does not
\* raise, and a location with fewer than 2 non-NaN samples keeps the value the
\* input held at missing_index.
C5_NaNSamplesSkipped ==
    \A r \in Runs :
        (ValidIndex(r) /\ time_steps(r) - 1 >= CubicMinEntries) =>
            /\ pc[r] # "raised"
            /\ \A loc \in Locations(r) :
                   (Processed(r, loc) /\ Cardinality(UsableSamples(r, loc)) < 2) =>
                       Out(r, missing_index[r], loc) = In(r, missing_index[r], loc)

\* C6: with at least 2 valid samples (T >= 3) and missing_index = 0 or T - 1
\* the call does not raise.
C6_BoundaryExtrapolated ==
    \A r \in Runs :
        (time_steps(r) - 1 >= 2 /\ missing_index[r] \in {0, time_steps(r) - 1}) =>
            pc[r] # "raised"

\* C7: when the time series at a location are the values of a polynomial p of
\* degree <= 3 (T >= 5, interior missing_index), the slice missing_index holds
\* p(missing_index) there once the loop is past the location, whatever the
\* input held.
C7_CubicReproduced ==
    \A r \in Runs :
        (poly # <<>> /\ 0 < missing_index[r] /\ missing_index[r] < time_steps(r) - 1) =>
            /\ pc[r] # "raised"
            /\ \A loc \in Locations(r) :
                   Processed(r, loc) =>
                       Out(r, missing_index[r], loc) =
                           Real(PolyValue(poly, missing_index[r]) + loc[1] + loc[2])

\* C7 reached: T = 5, missing_index = 2, a polynomial of degree 3, and the
\* returned slice holds p(2) where the input held something else.
C7_Witness ==
    \E r \in Runs :
        /\ poly # <<>> /\ poly[4] # 0
        /\ pc[r] = "done" /\ time_steps(r) = 5 /\ missing_index[r] = 2
        /\ In(r, 2, <<0, 0>>) # Real(PolyValue(poly, 2))
        /\ Out(r, 2, <<0, 0>>) = Real(PolyValue(poly, 2))

\* C8: two calls with the same missing_index on volumes of the same shape that
\* agree on the time series at a location agree there on the value stored at
\* missing_index and on whether the location was skipped with a diagnostic.
C8_LocationsIndependent ==
    \A r \in Runs, q \in Runs :
        \A loc \in Locations(r) :
            (/\ data_3d[r].shape = data_3d[q].shape
             /\ missing_index[r] = missing_index[q]
             /\ \A t \in 0..(time_steps(r) - 1) : In(r, t, loc) = In(q, t, loc)
             /\ Processed(r, loc) /\ Processed(q, loc)) =>
                /\ Out(r, missing_index[r], loc) = Out(q, missing_index[q], loc)
                /\ Cardinality(PrintedAt(r, loc)) = Cardinality(PrintedAt(q, loc))

\* C8 reached: both calls returned with a fitted value at a location where the
\* volumes agree, while the results differ at the other location.
C8_Witness ==
    /\ Runs = {1, 2}
    /\ pc[1] = "done" /\ pc[2] = "done"
    /\ time_steps(1) >= 5
    /\ \E loc \in Locations(1), other \in Locations(1) :
          /\ \A t \in 0..(time_steps(1) - 1) : In(1, t, loc) = In(2, t, loc)
          /\ Out(1, missing_index[1], loc) # In(1, missing_index[1], loc)
          /\ Out(1, missing_index[1], other) # Out(2, missing_index[2], other)

---------------------------------------------------------------------------
(* The stacking scripts *)
MaxExpected == 3   \* longest list of expected_files drawn (besides a generated year)
PoolMonths == 3    \* the file names the drawn lists use: months 1..PoolMonths
MaxYears == 2      \* years of files in the directory of create_monthly_3d_arrays

StartYear == 2003
MonthsPerYear == 12

\* the shapes (rows, cols) of the rasters
RasterShapes == {<<1, 2>>, <<2, 1>>}

\* f"clipped_final_img_{year}_{month:02d}.tif": one name per (year, month)
FileName(year, month) == <<year, month>>

\* generate_expected_filenames(start_year, end_year)
generate_expected_filenames(sy, ey) ==
    [k \in 1..(MonthsPerYear * (ey - sy + 1)) |->
        FileName(sy + ((k - 1) \div MonthsPerYear), ((k - 1) % MonthsPerYear) + 1)]

\* the first band stored in a file: a raster of the directory's common shape
\* whose pixels identify the file and the pixel
FileRaster(name) ==
    [shape |-> disk.shape,
     data |-> [rc \in {<<i, j>> : i \in 0..(disk.shape[1] - 1), j \in 0..(disk.shape[2] - 1)} |->
                 Real(100 * (MonthsPerYear * (name[1] - StartYear) + name[2])
                        + 10 * rc[1] + rc[2])]]

\* rasterio.open(path) succeeds (otherwise it raises RasterioIOError)
Readable(name) == name \in disk.exists /\ name \notin disk.corrupt

\* (*array_shape, n)   (variant: (n, *array_shape))
FullShapeTimeFirst(shape2, n) == <<n, shape2[1], shape2[2]>>
FullShape(shape2, n) == <<shape2[1], shape2[2], n>>

\* a[..., k] = raster   (variant: the raster lands in the next slice)
SetLastAxisNext(a, k, raster) ==
    [a EXCEPT !.data = [idx \in DOMAIN a.data |->
                           IF idx[3] = (k + 1) % a.shape[3] THEN raster.data[<<idx[1], idx[2]>>]
                           ELSE a.data[idx]]]
SetLastAxis(a, k, raster) ==
    [a EXCEPT !.data = [idx \in DOMAIN a.data |->
                           IF idx[3] = k THEN raster.data[<<idx[1], idx[2]>>]
                           ELSE a.data[idx]]]

\* stack_tiff_files_with_nans, lines 71-74: allocate the NaN array
StackStart ==
    /\ func = "stack" /\ spc = "start"
    /\ stacked_array' = NpFull(FullShape(array_shape, Len(expected_files)), NaN)
    /\ index' = 0
    /\ spc' = "loop"
    /\ UNCHANGED <<ivars, func, expected_files, tiff_files, missing_files, start_year,
                   end_year, array_shape, disk, monthly_arrays, log>>

\* lines 76-85: one iteration of  for index, filename in enumerate(expected_files)
StackLoop ==
    /\ func = "stack" /\ spc = "loop"
    /\ index < Len(expected_files)
    /\ LET filename == expected_files[index + 1]
       IN  IF filename \in tiff_files
           THEN IF Readable(filename)
                THEN /\ stacked_array' = SetLastAxis(stacked_array, index, FileRaster(filename))
                     /\ log' = Append(log, <<"Attempting to read file", filename>>)
                ELSE /\ stacked_array' = stacked_array
                     /\ log' = log \o <<(<<"Attempting to read file", filename>>),
                                        (<<"Error reading file", filename>>)>>
           ELSE /\ stacked_array' = stacked_array
                /\ log' = Append(log, <<"Missing file", filename>>)
    /\ index' = index + 1
    /\ UNCHANGED <<ivars, func, expected_files, tiff_files, missing_files, start_year,
                   end_year, array_shape, disk, monthly_arrays, spc>>

\* line 87: return stacked_array
StackReturn ==
    /\ func = "stack" /\ spc = "loop"
    /\ index = Len(expected_files)
    /\ spc' = "done"
    /\ UNCHANGED <<ivars, func, expected_files, tiff_files, missing_files, start_year,
                   end_year, array_shape, disk, stacked_array, monthly_arrays, index, log>>

total_years == end_year - start_year + 1

\* create_monthly_3d_arrays, lines 62-72: get_shape_of_first_tiff (which raises
\* FileNotFoundError when no listed file can be opened), then the 12 NaN arrays
MonthlyStart ==
    /\ func = "monthly" /\ spc = "start"
    /\ IF \E f \in tiff_files : Readable(f)
       THEN /\ array_shape' = disk.shape
            /\ monthly_arrays' = [month \in 1..MonthsPerYear |->
                                     NpFull(FullShape(disk.shape, total_years), NaN)]
            /\ spc' = "loop"
            /\ log' = log
       ELSE /\ spc' = "raised"
            /\ log' = Append(log, <<"FileNotFoundError", <<>>>>)
            /\ UNCHANGED <<array_shape, monthly_arrays>>
    /\ index' = 0
    /\ UNCHANGED <<ivars, func, expected_files, tiff_files, missing_files, start_year,
                   end_year, disk, stacked_array>>

\* lines 74-92: one iteration of  for year ...: for month in range(1, 13)
MonthlyLoop ==
    /\ func = "monthly" /\ spc = "loop"
    /\ index < MonthsPerYear * total_years
    /\ LET year == start_year + (index \div MonthsPerYear)
           month == (index % MonthsPerYear) + 1
           filename == FileName(year, month)
           year_index == year - start_year
       IN  IF filename \in missing_files
           THEN /\ log' = Append(log, <<"Skipping missing file", filename>>)
                /\ monthly_arrays' = monthly_arrays
           ELSE IF filename \in tiff_files /\ filename \in disk.exists
           THEN IF Readable(filename)
                THEN /\ monthly_arrays' =
                          [monthly_arrays EXCEPT ![month] =
                              SetLastAxis(@, year_index, FileRaster(filename))]
                     /\ log' = log
                ELSE /\ log' = Append(log, <<"Error reading file", filename>>)
                     /\ monthly_arrays' = monthly_arrays
           ELSE /\ log' = Append(log, <<"File not found", filename>>)
                /\ monthly_arrays' = monthly_arrays
    /\ index' = index + 1
    /\ UNCHANGED <<ivars, func, expected_files, tiff_files, missing_files, start_year,
                   end_year, array_shape, disk, stacked_array, spc>>

\* line 94: return monthly_arrays
MonthlyReturn ==
    /\ func = "monthly" /\ spc = "loop"
    /\ index = MonthsPerYear * total_years
    /\ spc' = "done"
    /\ UNCHANGED <<ivars, func, expected_files, tiff_files, missing_files, start_year,
                   end_year, array_shape, disk, stacked_array, monthly_arrays, index, log>>

NextStack ==
    StackStart \/ StackLoop \/ StackReturn \/ MonthlyStart \/ MonthlyLoop \/ MonthlyReturn

NoRuns ==
    /\ data_3d = <<>>
    /\ missing_index = <<>>
    /\ interpolated_data = <<>>
    /\ x = <<>>
    /\ y = <<>>
    /\ pc = <<>>
    /\ error = <<>>
    /\ printed = <<>>
    /\ poly = <<>>

RECURSIVE SeqsUpTo(_, _)
SeqsUpTo(S, n) ==
    IF n = 0 THEN {<<>>}
    ELSE LET shorter == SeqsUpTo(S, n - 1)
         IN  shorter \cup {Append(q, e) : q \in shorter, e \in S}

NamePool == {FileName(StartYear, month) : month \in 1..PoolMonths}

\* stack_tiff_files_with_nans on any short list over the pool, or on one generated
\* year; every pool file is listed or not, and opens or raises
InitStackCall ==
    /\ func = "stack"
    /\ expected_files \in SeqsUpTo(NamePool, MaxExpected)
                            \cup {generate_expected_filenames(StartYear, StartYear)}
    /\ tiff_files \in SUBSET NamePool
    /\ missing_files = {}
    /\ start_year = StartYear
    /\ end_year = StartYear
    /\ array_shape \in RasterShapes
    /\ \E bad \in SUBSET tiff_files :
          disk = [exists |-> NamePool, corrupt |-> bad, shape |-> array_shape]

DirectoryNames ==
    {FileName(year, month) : year \in StartYear..(StartYear + MaxYears - 1),
                             month \in 1..MonthsPerYear}

\* create_monthly_3d_arrays on a directory holding every month of MaxYears years,
\* or nothing, with at most one file at fault in one of four ways
InitMonthlyCall ==
    /\ func = "monthly"
    /\ expected_files = <<>>
    /\ start_year = StartYear
    /\ end_year \in (StartYear - 1)..(StartYear + MaxYears - 1)
    /\ array_shape = <<>>
    /\ \E shape \in RasterShapes, s \in {{}} \cup {{n} : n \in DirectoryNames},
          fault \in {"declared missing", "not listed", "not on disk", "corrupt"},
          dir \in {{}, DirectoryNames} :
          /\ dir = {} => (s = {} /\ fault = "corrupt")
          /\ s = {} => fault = "corrupt"
          /\ missing_files = IF fault = "declared missing" THEN s ELSE {}
          /\ tiff_files = IF fault = "not listed" THEN dir \ s ELSE dir
          /\ disk = [exists |-> IF fault = "not on disk" THEN dir \ s ELSE dir,
                     corrupt |-> IF fault = "corrupt" THEN s ELSE {},
                     shape |-> shape]

InitStack ==
    /\ NoRuns
    /\ InitStackCall \/ InitMonthlyCall
    /\ stacked_array = NoArray
    /\ monthly_arrays = <<>>
    /\ index = 0
    /\ spc = "start"
    /\ log = <<>>

SpecStack == InitStack /\ [][NextStack]_vars

---------------------------------------------------------------------------
(* Claims about the stacking scripts *)

\* C9 (as amended): the stacked arrays are indexed (rows, cols, time): the
\* raster's rows and columns are axes 0 and 1 and the time axis is the last
\* axis, of length len(expected_files), resp. the number of years; unpacked as
\* (time_steps, x_dim, y_dim) their shape gives time_steps = rows.
C9_TimeAxisLast ==
    /\ (func = "stack" /\ spc \in {"loop", "done"}) =>
          /\ stacked_array.shape = <<array_shape[1], array_shape[2], Len(expected_files)>>
          /\ DOMAIN stacked_array.data = IndexSet(stacked_array.shape)
          /\ ShapeUnpack(stacked_array).time_steps = array_shape[1]
    /\ (func = "monthly" /\ spc \in {"loop", "done"}) =>
          /\ DOMAIN monthly_arrays = 1..MonthsPerYear
          /\ \A month \in 1..MonthsPerYear :
                /\ monthly_arrays[month].shape = <<array_shape[1], array_shape[2], total_years>>
                /\ DOMAIN monthly_arrays[month].data = IndexSet(monthly_arrays[month].shape)
                /\ ShapeUnpack(monthly_arrays[month]).time_steps = array_shape[1]

\* C9 reached: create_monthly_3d_arrays returned arrays of shape (1, 2, 2) with
\* a raster in the second year and NaN in the first.
C9_Witness ==
    /\ func = "monthly" /\ spc = "done"
    /\ total_years = 2
    /\ array_shape = <<1, 2>>
    /\ \E month \in 1..MonthsPerYear :
          /\ ~IsNaN(monthly_arrays[month].data[<<0, 1, 1>>])
          /\ IsNaN(monthly_arrays[month].data[<<0, 1, 0>>])

\* C9 (as claimed): the stacked arrays are indexed (time, x, y): axis 0 is the
\* time axis and the raster's rows and columns are axes 1 and 2.
C9_TimeAxisFirst ==
    /\ (func = "stack" /\ spc \in {"loop", "done"}) =>
          ShapeUnpack(stacked_array) =
              [time_steps |-> Len(expected_files), x_dim |-> array_shape[1],
               y_dim |-> array_shape[2]]
    /\ (func = "monthly" /\ spc \in {"loop", "done"}) =>
          \A month \in 1..MonthsPerYear :
              ShapeUnpack(monthly_arrays[month]) =
                  [time_steps |-> total_years, x_dim |-> array_shape[1],
                   y_dim |-> array_shape[2]]

\* C10: stack_tiff_files_with_nans never raises on a missing or unreadable file;
\* its array has one slice per entry of expected_files, in that order: once the
\* loop is past entry i, slice i holds the raster of expected_files[i] when the
\* name is listed in tiff_files and the file opens, and is all NaN otherwise
\* (as is every slice the loop has not reached).
C10_OneSlicePerExpectedFile ==
    func = "stack" =>
        /\ spc # "raised"
        /\ spc \in {"loop", "done"} =>
              /\ stacked_array.shape[3] = Len(expected_files)
              /\ \A idx \in DOMAIN stacked_array.data :
                    LET name == expected_files[idx[3] + 1]
                    IN  stacked_array.data[idx] =
                            IF idx[3] < index /\ name \in tiff_files /\ Readable(name)
                            THEN FileRaster(name).data[<<idx[1], idx[2]>>]
                            ELSE NaN
        /\ spc = "done" => index = Len(expected_files)

\* C10 reached: three expected files, the first not listed, the second
\* unreadable, the third read into slice 2.
C10_Witness ==
    /\ func = "stack" /\ spc = "done"
    /\ Len(expected_files) = 3
    /\ expected_files[1] \notin tiff_files
    /\ expected_files[2] \in tiff_files /\ ~Readable(expected_files[2])
    /\ expected_files[3] \in tiff_files /\ Readable(expected_files[3])
    /\ \A idx \in DOMAIN stacked_array.data :
          /\ idx[3] < 2 => IsNaN(stacked_array.data[idx])
          /\ idx[3] = 2 => stacked_array.data[idx] =
                               FileRaster(expected_files[3]).data[<<idx[1], idx[2]>>]

====
